---- MODULE Spec2Model ----
(***************************************************************************)
(* Excite (src/Excite.py): the Bibliography class and                      *)
(* ApplePages.ProcessCitations with its two rewrite passes.                *)
(*                                                                         *)
(* Text is a sequence of tokens (strings).  The two marker heads           *)
(* "\cite{" and "\bibitem{" are one token each; every other token is one   *)
(* character.  A label is the sequence of word tokens between a marker     *)
(* head and "}".  Python's None and u"" are both the empty sequence.       *)
(*                                                                         *)
(* An element is a record [tag, attrib, text, tail, children].  The        *)
(* attrib of a paragraph of the document, and of a rendered node, is the   *)
(* identity of a dict object (a key of the variable dicts), because        *)
(* copyelement shares the dict and Element.clear() empties it in place.    *)
(* The attrib of a descendant element is the set of its (name, value)      *)
(* pairs: no descendant is ever cleared.                                   *)
(***************************************************************************)
EXTENDS Integers, Sequences, FiniteSets, TLC

\* ------------------------------------------------------------------ bounds
\* Longest document (number of sf:p paragraphs) ProcessCitations is run on.
MaxNodes == 3
\* Number of distinct labels the documents and the API calls draw from.
NumLabels == 2
\* Longest sequence of AddCitation/AddReference calls of SpecBib.
MaxCalls == 5

\* ------------------------------------------------------------------ tokens
CITE == "\\cite{"
BIBITEM == "\\bibitem{"
CLOSE == "}"
Digits == <<"0", "1", "2", "3", "4", "5", "6", "7", "8", "9">>
LabelNames == <<"a", "b", "c", "d">>
\* \w of the two formats (no re.UNICODE at the scan: ASCII letters, digits, _)
WordChars == {"a", "b", "c", "d", "T", "_"} \cup {Digits[i] : i \in 1..10}
Whitespace == {" ", "\n"}
Labels == {<<LabelNames[i]>> : i \in 1..NumLabels}

\* unicode.format of a non-negative integer
RECURSIVE Decimal(_)
Decimal(n) ==
    IF n < 10 THEN <<Digits[n + 1]>>
    ELSE Decimal(n \div 10) \o <<Digits[(n % 10) + 1]>>

Max(S) == CHOOSE x \in S : \A y \in S : y <= x

\* ------------------------------------------------------------------- regex
\* Last index of the maximal run of \w tokens starting at i (i-1 when empty).
WordRunEnd(text, i) ==
    CHOOSE j \in (i - 1)..Len(text) :
        /\ \A k \in i..j : text[k] \in WordChars
        /\ (j = Len(text) \/ text[j + 1] \notin WordChars)

\* head\{(\w+)\} matches at position i
MatchAt(head, text, i) ==
    /\ i <= Len(text)
    /\ text[i] = head
    /\ LET j == WordRunEnd(text, i + 1)
       IN  j >= i + 1 /\ j + 1 <= Len(text) /\ text[j + 1] = CLOSE

\* group(1) of the match at i, and the index of its last token
MatchLabel(text, i) == SubSeq(text, i + 1, WordRunEnd(text, i + 1))
MatchEnd(text, i) == WordRunEnd(text, i + 1) + 1

\* re.findall(head\{(\w+)\}, text) from position i on: the labels, left to right
RECURSIVE FindAllFrom(_, _, _)
FindAllFrom(head, text, i) ==
    IF i > Len(text) THEN <<>>
    ELSE IF MatchAt(head, text, i)
         THEN <<MatchLabel(text, i)>> \o FindAllFrom(head, text, MatchEnd(text, i) + 1)
         ELSE FindAllFrom(head, text, i + 1)

\* re.findall(self.citationformat, text)
citationformat(text) == FindAllFrom(CITE, text, 1)

\* re.search(self.bibformat, text): <<>> for None, else <<group(1)>>
bibformat(text) ==
    LET hits == FindAllFrom(BIBITEM, text, 1)
    IN  IF hits = <<>> THEN <<>> ELSE <<hits[1]>>

\* re.sub(head\{label\}, replacement, text): every occurrence of the marker
\* of exactly this label is replaced
RECURSIVE SubFrom(_, _, _, _, _)
SubFrom(head, label, replacement, text, i) ==
    IF i > Len(text) THEN <<>>
    ELSE IF MatchAt(head, text, i) /\ MatchLabel(text, i) = label
         THEN replacement \o SubFrom(head, label, replacement, text, MatchEnd(text, i) + 1)
         ELSE <<text[i]>> \o SubFrom(head, label, replacement, text, i + 1)

resub(head, label, replacement, text) == SubFrom(head, label, replacement, text, 1)

\* ---------------------------------------------------------------- elements
RECURSIVE alltext(_)
RECURSIVE alltextOfChildren(_, _)
alltextOfChildren(children, i) ==
    IF i > Len(children) THEN <<>>
    ELSE alltext(children[i]) \o children[i].tail \o alltextOfChildren(children, i + 1)

\* itertext(): own text, then each child's itertext() and tail, in order
alltext(node) == node.text \o alltextOfChildren(node.children, 1)

\* ------------------------------------------------------------ Bibliography
EmptyMap == [x \in {} |-> 0]
Range(seq) == {seq[i] : i \in 1..Len(seq)}

\* Bibliography.__init__
BibliographyInit(orderby) ==
    [order |-> EmptyMap, orderby |-> orderby, citations |-> <<>>, references |-> EmptyMap]

\* mutant: the KeyError test is dropped, every sighting takes a new number
MaybeUpdateOrderAlways(b, label) ==
    [b EXCEPT !.order =
        (label :> (Max({b.order[l] : l \in DOMAIN b.order} \cup {0}) + 1)) @@ @]

\* Bibliography.__MaybeUpdateOrder: max(order.values() + [0]) + 1 on KeyError
MaybeUpdateOrder(b, label) ==
    IF label \in DOMAIN b.order THEN b
    ELSE [b EXCEPT !.order =
            (label :> (Max({b.order[l] : l \in DOMAIN b.order} \cup {0}) + 1)) @@ @]

\* mutant: the orderby test is dropped, a citation always takes a number
AddCitationAlways(b, label) ==
    [b EXCEPT !.citations = Append(@, label),
              !.order = IF label \in DOMAIN @ THEN @
                        ELSE (label :> (Max({@[l] : l \in DOMAIN @} \cup {0}) + 1)) @@ @]

\* Bibliography.AddCitation
AddCitation(b, label) ==
    LET appended == [b EXCEPT !.citations = Append(@, label)]
    IN  IF b.orderby = "citation-first" THEN MaybeUpdateOrder(appended, label)
        ELSE appended

\* Bibliography.AddReference raises DuplicateReferenceError(badrefs=[label])
AddReferenceRaises(b, label) == label \in DOMAIN b.references

\* mutant: a second reference of a label silently replaces the first
AddReferenceOverwrite(b, label, reference) ==
    [b EXCEPT !.references =
        [l \in DOMAIN @ \cup {label} |-> IF l = label THEN reference ELSE @[l]]]

\* Bibliography.AddReference; the bibliography is left as it was when it raises
AddReference(b, label, reference) ==
    IF AddReferenceRaises(b, label) THEN b
    ELSE LET stored == [b EXCEPT !.references = (label :> reference) @@ @]
         IN  IF b.orderby = "reference-first" THEN MaybeUpdateOrder(stored, label)
             ELSE stored

\* Bibliography.Index raises KeyError
IndexRaises(b, label) == label \notin DOMAIN b.order
\* Bibliography.Index
Index(b, label) == b.order[label]

\* mutant: the two label sets are compared for equality
IsConsistentEqual(b) == Range(b.citations) = DOMAIN b.references

\* Bibliography.IsConsistent
IsConsistent(b) ==
    (Range(b.citations) \cap DOMAIN b.references) = Range(b.citations)

\* mutant: only the numbered labels are counted
CountOfOrder(b) == Cardinality(DOMAIN b.order)

\* mutant: an empty bibliography counts one entry
CountAtLeastOne(b) ==
    Max({1, Cardinality(DOMAIN b.order), Cardinality(DOMAIN b.references)})

\* Bibliography.Count
Count(b) == Max({Cardinality(DOMAIN b.order), Cardinality(DOMAIN b.references)})

\* mutant: the reference is looked up a second time under a key that was
\* never stored, which the defaultdict inserts
ReferencesAfterStrayLookup(b, label) ==
    (<<"T">> :> 0) @@ b.references

\* self.references[label] of a defaultdict(str): a missing key is inserted
\* with u"" (written 0 here: the stored references are paragraph numbers >= 1)
ReferencesAfterLookup(b, label) ==
    IF label \in DOMAIN b.references THEN b.references
    ELSE (label :> 0) @@ b.references

\* Bibliography.GetReferenceByLabel raises KeyError: Index(label) is
\* evaluated first, before the reference is looked up
GetReferenceByLabelRaises(b, label) == IndexRaises(b, label)

\* Bibliography.GetReferenceByLabel: the triple (label, index, reference)
GetReferenceByLabel(b, label) ==
    <<[label |-> label, index |-> Index(b, label),
       reference |-> ReferencesAfterLookup(b, label)[label]]>>

\* the bibliography after GetReferenceByLabel(label) returned
AfterGetReferenceByLabel(b, label) ==
    [b EXCEPT !.references = ReferencesAfterLookup(b, label)]

\* Bibliography.GetReferenceByIndex fails its assert
GetReferenceByIndexAsserts(b, index) == index > Count(b)

\* mutant: the entry is looked up by the position of its paragraph among the
\* reference paragraphs, not by its number
GetReferenceByPosition(b, index) ==
    LET refs == b.references
        hits == {l \in DOMAIN refs :
                    Cardinality({k \in DOMAIN refs : refs[k] <= refs[l]}) = index}
    IN  IF hits = {} THEN <<>>
        ELSE LET label == CHOOSE l \in hits : TRUE
             IN  <<[label |-> label, index |-> index, reference |-> refs[label]]>>

\* Bibliography.GetReferenceByIndex: <<>> for the None the loop falls through
\* to, else the one triple (the values of order never repeat, so at most one
\* label has the index)
GetReferenceByIndex(b, index) ==
    LET hits == {l \in DOMAIN b.order : b.order[l] = index}
    IN  IF hits = {} THEN <<>>
        ELSE LET label == CHOOSE l \in hits : TRUE
             IN  <<[label |-> label, index |-> index,
                    reference |-> ReferencesAfterLookup(b, label)[label]]>>

\* the bibliography after GetReferenceByIndex(index) returned
AfterGetReferenceByIndex(b, index) ==
    LET hits == {l \in DOMAIN b.order : b.order[l] = index}
    IN  IF hits = {} THEN b
        ELSE [b EXCEPT !.references = ReferencesAfterLookup(b, CHOOSE l \in hits : TRUE)]

\* ------------------------------------------------------------ XML text
\* The serialised XML is a sequence of items: an opening tag with its
\* attributes, a closing tag, or a run of character data.
OpenTag(tag, attrib) == [kind |-> "open", tag |-> tag, attrib |-> attrib, chars |-> <<>>]
CloseTag(tag) == [kind |-> "close", tag |-> tag, attrib |-> {}, chars |-> <<>>]
CharData(text) == [kind |-> "chars", tag |-> "", attrib |-> {}, chars |-> text]
CharItems(text) == IF text = <<>> THEN <<>> ELSE <<CharData(text)>>

RECURSIVE serialize_xml(_)
RECURSIVE serialize_children(_, _)
serialize_children(children, i) ==
    IF i > Len(children) THEN <<>>
    ELSE serialize_xml(children[i]) \o serialize_children(children, i + 1)

\* ElementTree._serialize_xml: the tag, the text, the children, the closing
\* tag and then the element's tail (the root's tail too)
serialize_xml(elem) ==
    <<OpenTag(elem.tag, elem.attrib)>> \o CharItems(elem.text)
        \o serialize_children(elem.children, 1)
        \o <<CloseTag(elem.tag)>> \o CharItems(elem.tail)

\* ElementTree.tostring(node): the paragraph's attributes are read from its dict
tostring(node, dicts) == serialize_xml([node EXCEPT !.attrib = dicts[node.attrib]])

\* ApplePages.styles['superscript']
SuperscriptStyle == "SFWPCharacterStyle-50000"

\* mutant: the index is rendered zero-based
RenderCitationZeroBased(style, index) ==
    IF style = "square-brace" THEN <<CharData(<<"[">> \o Decimal(index - 1) \o <<"]">>)>>
    ELSE IF style = "superscript"
         THEN <<OpenTag("sf:span", {<<"sf:style", SuperscriptStyle>>}),
                CharData(Decimal(index - 1)), CloseTag("sf:span")>>
    ELSE IF style = "parens" THEN <<CharData(<<"(">> \o Decimal(index - 1) \o <<")">>)>>
    ELSE <<CharData(Decimal(index - 1))>>

\* ApplePages.RenderCitation: the replacement text, as XML items
RenderCitation(style, index) ==
    IF style = "square-brace" THEN <<CharData(<<"[">> \o Decimal(index) \o <<"]">>)>>
    ELSE IF style = "superscript"
         THEN <<OpenTag("sf:span", {<<"sf:style", SuperscriptStyle>>}),
                CharData(Decimal(index)), CloseTag("sf:span")>>
    ELSE IF style = "parens" THEN <<CharData(<<"(">> \o Decimal(index) \o <<")">>)>>
    ELSE <<CharData(Decimal(index))>>

\* the labels re.findall(self.citationformat, xml) finds in the XML text: a
\* match lies inside one run of character data, since no tag character is
\* part of a marker
RECURSIVE XmlCitationLabels(_, _)
XmlCitationLabels(xml, i) ==
    IF i > Len(xml) THEN <<>>
    ELSE (IF xml[i].kind = "chars" THEN citationformat(xml[i].chars) ELSE <<>>)
            \o XmlCitationLabels(xml, i + 1)

\* replacecitation on one run of character data, from position i on, with
\* the characters kept so far in run
RECURSIVE ReplaceInChars(_, _, _, _, _)
ReplaceInChars(style, b, text, i, run) ==
    IF i > Len(text) THEN CharItems(run)
    ELSE IF MatchAt(CITE, text, i)
         THEN CharItems(run) \o RenderCitation(style, Index(b, MatchLabel(text, i)))
                 \o ReplaceInChars(style, b, text, MatchEnd(text, i) + 1, <<>>)
         ELSE ReplaceInChars(style, b, text, i + 1, Append(run, text[i]))

\* replacecitation raises KeyError: bibliography.Index of a label that was
\* never ordered
replacecitationRaises(b, xml) ==
    \E l \in Range(XmlCitationLabels(xml, 1)) : IndexRaises(b, l)

\* replacecitation(xml): every \cite{label} of the XML text replaced by the
\* rendering of the label's index
RECURSIVE replacecitationFrom(_, _, _, _)
replacecitationFrom(style, b, xml, i) ==
    IF i > Len(xml) THEN <<>>
    ELSE (IF xml[i].kind = "chars" THEN ReplaceInChars(style, b, xml[i].chars, 1, <<>>)
          ELSE <<xml[i]>>)
            \o replacecitationFrom(style, b, xml, i + 1)

replacecitation(style, b, xml) == replacecitationFrom(style, b, xml, 1)

\* ------------------------------------------------------------ XML parser
\* the character data of the consecutive "chars" items from i on
RECURSIVE TextFrom(_, _)
TextFrom(xml, i) ==
    IF i > Len(xml) \/ xml[i].kind # "chars" THEN <<>>
    ELSE xml[i].chars \o TextFrom(xml, i + 1)

\* the index of the first item from i on that is not character data
RECURSIVE SkipText(_, _)
SkipText(xml, i) ==
    IF i > Len(xml) \/ xml[i].kind # "chars" THEN i ELSE SkipText(xml, i + 1)

RECURSIVE ParseElement(_, _)
RECURSIVE ParseChildren(_, _, _)
\* the children from item j on, up to the closing tag of their parent
ParseChildren(xml, j, acc) ==
    IF xml[j].kind = "close" THEN [children |-> acc, next |-> j + 1]
    ELSE LET c == ParseElement(xml, j)
         IN  ParseChildren(xml, SkipText(xml, c.next),
                           Append(acc, [c.elem EXCEPT !.tail = TextFrom(xml, c.next)]))

\* the element whose opening tag is item i, and the index after its closing tag
ParseElement(xml, i) ==
    LET kids == ParseChildren(xml, SkipText(xml, i + 1), <<>>)
    IN  [elem |-> [tag |-> xml[i].tag, attrib |-> xml[i].attrib,
                   text |-> TextFrom(xml, i + 1), tail |-> <<>>,
                   children |-> kids.children],
         next |-> kids.next]

\* ElementTree.XML raises ParseError: anything but white space after the
\* root element
XMLRaises(xml) ==
    \E k \in ParseElement(xml, 1).next..Len(xml) :
        xml[k].kind # "chars" \/ \E c \in Range(xml[k].chars) : c \notin Whitespace

\* ElementTree.XML(xml): the root element (its tail is None)
XML(xml) == ParseElement(xml, 1).elem

\* ----------------------------------------------------------- copyelement
\* copyelement(fromnode, tonode) where tonode is a paragraph and fromnode
\* holds its attributes in the dict fromnode.attrib: tonode.clear() empties
\* tonode's own dict in place, then tonode shares fromnode's dict and takes
\* its tag, text, tail and children
copyelement(dicts, fromnode, tonode) ==
    [dicts |-> [dicts EXCEPT ![tonode.attrib] = {}],
     node |-> [tag |-> fromnode.tag, attrib |-> fromnode.attrib,
               text |-> fromnode.text, tail |-> fromnode.tail,
               children |-> fromnode.children]]

\* ------------------------------------------------------- RenderReference
\* the replacementtext of RenderReference
ReferencePrefix(style, index) ==
    IF style = "digit-dot" THEN Decimal(index) \o <<".", " ">>
    ELSE <<"[">> \o Decimal(index) \o <<"]", " ">>

\* replacebib(text): every \bibitem{label} replaced by the prefix
replacebib(style, index, label, text) ==
    resub(BIBITEM, label, ReferencePrefix(style, index), text)

\* traversetransform(node, replacebib) on the children of a node
RECURSIVE traversetransform(_, _, _, _)
TransformChildren(style, index, label, children) ==
    [i \in 1..Len(children) |-> traversetransform(style, index, label, children[i])]

\* traversetransform(node, replacebib): text, tail, then every child
traversetransform(style, index, label, node) ==
    [node EXCEPT !.text = replacebib(style, index, label, node.text),
                 !.tail = replacebib(style, index, label, node.tail),
                 !.children = TransformChildren(style, index, label, node.children)]

\* ------------------------------------------------------------------ state
VARIABLES
    document,       \* self.document: the sf:p paragraphs findall returns, in order
    dicts,          \* the attrib dict objects: identity -> set of (name, value)
    citestyle,      \* argument of ProcessCitations
    bibstyle,       \* argument of ProcessCitations
    orderby,        \* argument of ProcessCitations / Bibliography.__init__
    bibliography,   \* the Bibliography: [order, orderby, citations, references]
    citationnodes,  \* paragraph numbers, in the order found
    bibnodes,       \* paragraph numbers, in the order found
    renderednodes,  \* the nodes RenderReference returned so far
    pc,             \* where ProcessCitations is
    pos,            \* the loop index of the running loop
    outcome,        \* "running", "success", or the name of the error raised
    badlabels,      \* badcites / badrefs of the error raised
    document0,      \* the document as ProcessCitations received it
    document1,      \* the document as the citation pass left it (<<>> before)
    call,           \* the last Bibliography method called through the API
    prev,           \* the bibliography before that call
    returned        \* what that call returned: <<>> for None, else <<value>>

vars == <<document, dicts, citestyle, bibstyle, orderby, bibliography, citationnodes,
          bibnodes, renderednodes, pc, pos, outcome, badlabels, document0, document1,
          call, prev, returned>>

\* ApplePages.supportedcitestyles, supportedbibstyles, and the orderings
supportedcitestyles == {"square-brace", "superscript", "parens"}
supportedbibstyles == {"square-brace", "digit-dot"}
supportedorderings == {"citation-first", "reference-first"}

\* -------------------------------------------------------------- documents
Cite(l) == <<CITE>> \o l \o <<CLOSE>>
Bibitem(l) == <<BIBITEM>> \o l \o <<CLOSE>>
BodyStyle == {<<"sf:style", "body">>}
BibStyle == {<<"sf:style", "bib">>}
Paragraph(attrib, text, children, tail) ==
    [tag |-> "sf:p", attrib |-> attrib, text |-> text, tail |-> tail, children |-> children]
Span(text, tail) ==
    [tag |-> "sf:span", attrib |-> {<<"sf:style", "italic">>}, text |-> text,
     tail |-> tail, children |-> <<>>]

\* the paragraphs the documents are made of
CiteNode(l) == Paragraph(BodyStyle, <<"T", " ">> \o Cite(l), <<>>, <<>>)
BibNode(l) == Paragraph(BibStyle, Bibitem(l) \o <<" ", "T">>, <<>>, <<>>)
TwoCites(l, m) ==
    Paragraph(BodyStyle, Cite(l), <<Span(<<"T">>, Cite(m) \o <<".">>)>>, <<"\n">>)
RichBib(l, m) ==
    Paragraph(BibStyle, <<>>,
              <<Span(Bibitem(l) \o <<" ", "T">>, <<" ">> \o Bibitem(m))>>, <<>>)
SplitCite(l) == Paragraph(BodyStyle, <<CITE>>, <<Span(l, <<CLOSE>>)>>, <<>>)
SplitBib(l) == Paragraph(BibStyle, <<BIBITEM>>, <<Span(l \o <<CLOSE>>, <<" ", "T">>)>>, <<>>)
CiteAndBib(l, m) == Paragraph(BibStyle, Cite(l) \o Bibitem(m) \o <<" ", "T">>, <<>>, <<>>)
CiteTail(l, m) == Paragraph(BodyStyle, Cite(l), <<>>, <<"T">> \o Cite(m))
Plain == Paragraph(BodyStyle, <<"T">>, <<>>, <<>>)
\* a citation marker only in the paragraph's own tail, which itertext() leaves out
TailOnly(l) == Paragraph(BodyStyle, <<"T">>, <<Span(<<"T">>, <<".">>)>>, Cite(l))

\* the label after label number i, cyclically
LabelAt(i) == <<LabelNames[i]>>
Succ(i) == LabelAt((i % NumLabels) + 1)

Pool ==
    {Plain, TailOnly(LabelAt(1)), RichBib(LabelAt(1), Succ(1)), SplitCite(LabelAt(1)), SplitBib(LabelAt(1)),
     CiteAndBib(LabelAt(1), Succ(1)), CiteTail(LabelAt(1), Succ(1))}
    \cup {CiteNode(l) : l \in Labels} \cup {BibNode(l) : l \in Labels}
    \cup {TwoCites(LabelAt(i), Succ(i)) : i \in 1..NumLabels}

Documents == UNION {[1..n -> Pool] : n \in 0..MaxNodes}

\* the paragraphs with their attributes read through their dicts
View(doc, d) == [i \in 1..Len(doc) |-> [doc[i] EXCEPT !.attrib = d[doc[i].attrib]]]

\* the arguments ProcessCitations is called with: every supported
\* combination, and one unsupported value of each argument
Arguments ==
    (supportedcitestyles \X supportedbibstyles \X supportedorderings)
    \cup {<<"footnote", "digit-dot", "citation-first">>,
          <<"square-brace", "footnote", "citation-first">>,
          <<"square-brace", "digit-dot", "alphabetical">>}

\* ------------------------------------------------------------------- Init
Init ==
    /\ document0 \in Documents
    /\ document = [i \in 1..Len(document0) |-> [document0[i] EXCEPT !.attrib = i]]
    /\ dicts = [i \in 1..(2 * Len(document0)) |->
                    IF i <= Len(document0) THEN document0[i].attrib ELSE {}]
    /\ \E args \in Arguments :
        /\ citestyle = args[1]
        /\ bibstyle = args[2]
        /\ orderby = args[3]
    /\ bibliography = BibliographyInit("citation-first")
    /\ citationnodes = <<>>
    /\ bibnodes = <<>>
    /\ renderednodes = <<>>
    /\ document1 = <<>>
    /\ pc = "Start"
    /\ pos = 1
    /\ outcome = "running"
    /\ badlabels = {}
    /\ call = [op |-> "none", label |-> <<>>, reference |-> 0]
    /\ prev = BibliographyInit("citation-first")
    /\ returned = <<>>

Fail(error, labels) ==
    /\ pc' = "Failed"
    /\ outcome' = error
    /\ badlabels' = labels

\* mutant: the three asserts are dropped
StartWithoutAsserts ==
    /\ pc = "Start"
    /\ bibliography' = BibliographyInit(orderby)
    /\ pc' = IF Len(document) = 0 THEN "Validating" ELSE "Scanning"
    /\ UNCHANGED <<outcome, badlabels>>
    /\ UNCHANGED <<document, dicts, citestyle, bibstyle, orderby, citationnodes, bibnodes,
                   renderednodes, pos, document0, document1, call, prev, returned>>

\* ProcessCitations, lines 232-238: the asserts, then the fresh Bibliography
Start ==
    /\ pc = "Start"
    /\ IF /\ citestyle \in supportedcitestyles
          /\ bibstyle \in supportedbibstyles
          /\ orderby \in supportedorderings
       THEN /\ bibliography' = BibliographyInit(orderby)
            /\ pc' = IF Len(document) = 0 THEN "Validating" ELSE "Scanning"
            /\ UNCHANGED <<outcome, badlabels>>
       ELSE /\ Fail("AssertionError", {})
            /\ UNCHANGED bibliography
    /\ UNCHANGED <<document, dicts, citestyle, bibstyle, orderby, citationnodes, bibnodes,
                   renderednodes, pos, document0, document1, call, prev, returned>>

\* for label in citationmatch: bibliography.AddCitation(label)
RECURSIVE AddCitations(_, _, _)
AddCitations(b, labels, i) ==
    IF i > Len(labels) THEN b ELSE AddCitations(AddCitation(b, labels[i]), labels, i + 1)

\* ProcessCitations, lines 240-253: one iteration of the scan loop
ScanNode ==
    /\ pc = "Scanning"
    /\ LET searchtext == alltext(document[pos])
           citationmatch == citationformat(searchtext)
           bibitemmatch == bibformat(searchtext)
           cited == AddCitations(bibliography, citationmatch, 1)
       IN  /\ citationnodes' = IF Len(citationmatch) > 0 THEN Append(citationnodes, pos)
                               ELSE citationnodes
           /\ bibnodes' = IF bibitemmatch # <<>> THEN Append(bibnodes, pos) ELSE bibnodes
           /\ IF bibitemmatch # <<>> /\ AddReferenceRaises(cited, bibitemmatch[1])
              THEN /\ bibliography' = cited
                   /\ Fail("DuplicateReferenceError", {bibitemmatch[1]})
                   /\ UNCHANGED pos
              ELSE /\ bibliography' = IF bibitemmatch # <<>>
                                      THEN AddReference(cited, bibitemmatch[1], pos)
                                      ELSE cited
                   /\ pc' = IF pos = Len(document) THEN "Validating" ELSE "Scanning"
                   /\ pos' = IF pos = Len(document) THEN 1 ELSE pos + 1
                   /\ UNCHANGED <<outcome, badlabels>>
    /\ UNCHANGED <<document, dicts, citestyle, bibstyle, orderby, renderednodes,
                   document0, document1, call, prev, returned>>

\* mutant: the labels that are referenced but never cited
badcitesReversed(b) == DOMAIN b.references \ Range(b.citations)

\* ProcessCitations, line 258: the badcites of MissingReferenceError
badcites(b) == Range(b.citations) \ DOMAIN b.references

\* mutant: the reference pass is entered as soon as there is an entry to
\* render, whatever citation nodes are left
AfterCitationsReferencesFirst(k) ==
    IF Count(bibliography) >= 1 THEN "RenderingReferences"
    ELSE IF k <= Len(citationnodes) THEN "RewritingCitations"
    ELSE "Done"

\* where ProcessCitations goes once the citation nodes from number k on are left
AfterCitations(k) ==
    IF k <= Len(citationnodes) THEN "RewritingCitations"
    ELSE IF Count(bibliography) >= 1 THEN "RenderingReferences"
    ELSE "Done"

\* ProcessCitations, lines 255-259: the consistency check
Validate ==
    /\ pc = "Validating"
    /\ IF ~IsConsistent(bibliography)
       THEN Fail("MissingReferenceError", badcites(bibliography))
       ELSE /\ pc' = AfterCitations(1)
            /\ outcome' = IF AfterCitations(1) = "Done" THEN "success" ELSE outcome
            /\ UNCHANGED badlabels
    /\ document1' = IF IsConsistent(bibliography) /\ AfterCitations(1) # "RewritingCitations"
                    THEN View(document, dicts) ELSE document1
    /\ pos' = 1
    /\ UNCHANGED <<document, dicts, citestyle, bibstyle, orderby, bibliography,
                   citationnodes, bibnodes, renderednodes, document0, call, prev, returned>>

\* __ReplaceCitationMarkers, lines 287-295: one iteration of the loop
ReplaceCitationMarkers ==
    /\ pc = "RewritingCitations"
    /\ LET n == citationnodes[pos]
           xml == tostring(document[n], dicts)
       IN  IF replacecitationRaises(bibliography, xml)
           THEN /\ Fail("KeyError", {})
                /\ UNCHANGED <<document, dicts, pos, document1>>
           ELSE IF XMLRaises(replacecitation(citestyle, bibliography, xml))
           THEN /\ Fail("ParseError", {})
                /\ UNCHANGED <<document, dicts, pos, document1>>
           ELSE LET parsed == XML(replacecitation(citestyle, bibliography, xml))
                    \* the parsed element owns a new dict
                    fresh == Len(document) + n
                    modifiednode == [parsed EXCEPT !.attrib = fresh]
                    copied == copyelement([dicts EXCEPT ![fresh] = parsed.attrib],
                                          modifiednode, document[n])
                IN  /\ document' = [document EXCEPT ![n] = copied.node]
                    /\ dicts' = copied.dicts
                    /\ pc' = AfterCitations(pos + 1)
                    /\ pos' = IF AfterCitations(pos + 1) = "RewritingCitations"
                              THEN pos + 1 ELSE 1
                    /\ outcome' = IF AfterCitations(pos + 1) = "Done" THEN "success"
                                  ELSE outcome
                    /\ document1' = IF AfterCitations(pos + 1) # "RewritingCitations"
                                    THEN View([document EXCEPT ![n] = copied.node],
                                              copied.dicts)
                                    ELSE document1
                    /\ UNCHANGED badlabels
    /\ UNCHANGED <<citestyle, bibstyle, orderby, bibliography, citationnodes, bibnodes,
                   renderednodes, document0, call, prev, returned>>

\* where __ReplaceBibitemMarkers goes once the pairs from number k on are left
AfterSplices(k, rendered) ==
    IF k <= Len(bibnodes) /\ k <= Len(rendered) THEN "SplicingReferences" ELSE "Done"

\* __ReplaceBibitemMarkers, lines 324-325, with RenderReference: one
\* iteration of the rendering loop.  The children of the rendered node are
\* the child objects of the reference node, so traversetransform rewrites
\* them in the document too.
RenderReference ==
    /\ pc = "RenderingReferences"
    /\ LET got == GetReferenceByIndex(bibliography, pos)
       IN  IF got = <<>>
           THEN /\ Fail("TypeError", {})
                /\ UNCHANGED <<document, bibliography, renderednodes, pos>>
           ELSE IF got[1].reference = 0
           THEN /\ Fail("AttributeError", {})
                /\ bibliography' = AfterGetReferenceByIndex(bibliography, pos)
                /\ UNCHANGED <<document, renderednodes, pos>>
           ELSE LET m == got[1].reference
                    referencenode == document[m]
                    rendernode == traversetransform(bibstyle, got[1].index,
                                                    got[1].label, referencenode)
                    rendered == Append(renderednodes, rendernode)
                    last == pos = Count(bibliography)
                IN  /\ renderednodes' = rendered
                    /\ document' = [document EXCEPT ![m].children = rendernode.children]
                    /\ bibliography' = AfterGetReferenceByIndex(bibliography, pos)
                    /\ pc' = IF last THEN AfterSplices(1, rendered) ELSE pc
                    /\ pos' = IF last THEN 1 ELSE pos + 1
                    /\ outcome' = IF last /\ AfterSplices(1, rendered) = "Done"
                                  THEN "success" ELSE outcome
                    /\ UNCHANGED badlabels
    /\ UNCHANGED <<dicts, citestyle, bibstyle, orderby, citationnodes, bibnodes,
                   document0, document1, call, prev, returned>>

\* __ReplaceBibitemMarkers, lines 327-328: one iteration of the zip loop
SpliceReference ==
    /\ pc = "SplicingReferences"
    /\ LET n == bibnodes[pos]
           copied == copyelement(dicts, renderednodes[pos], document[n])
       IN  /\ document' = [document EXCEPT ![n] = copied.node]
           /\ dicts' = copied.dicts
           /\ pc' = AfterSplices(pos + 1, renderednodes)
           /\ pos' = IF AfterSplices(pos + 1, renderednodes) = "Done" THEN 1 ELSE pos + 1
           /\ outcome' = IF AfterSplices(pos + 1, renderednodes) = "Done" THEN "success"
                         ELSE outcome
    /\ UNCHANGED <<citestyle, bibstyle, orderby, bibliography, citationnodes, bibnodes,
                   renderednodes, badlabels, document0, document1, call, prev, returned>>

Next == Start \/ ScanNode \/ Validate \/ ReplaceCitationMarkers \/ RenderReference
            \/ SpliceReference

Spec == Init /\ [][Next]_vars

\* ------------------------------------------- the Bibliography API on its own
\* A Bibliography of either ordering, then any sequence of AddCitation and
\* AddReference calls (pos counts the calls).
InitBib ==
    /\ orderby \in supportedorderings
    /\ bibliography = BibliographyInit(orderby)
    /\ prev = BibliographyInit(orderby)
    /\ returned = <<>>
    /\ call = [op |-> "none", label |-> <<>>, reference |-> 0]
    /\ pc = "API"
    /\ pos = 0
    /\ outcome = "returned"
    /\ badlabels = {}
    /\ document0 = <<>>
    /\ document1 = <<>>
    /\ document = <<>>
    /\ dicts = <<>>
    /\ citestyle = "square-brace"
    /\ bibstyle = "digit-dot"
    /\ citationnodes = <<>>
    /\ bibnodes = <<>>
    /\ renderednodes = <<>>

\* the contents AddReference is called with (paragraph numbers)
Contents == {1, 2}

CallAddCitation ==
    /\ pc = "API"
    /\ pos < MaxCalls
    /\ \E label \in Labels :
        /\ call' = [op |-> "AddCitation", label |-> label, reference |-> 0]
        /\ bibliography' = AddCitation(bibliography, label)
    /\ prev' = bibliography
    /\ returned' = <<>>
    /\ pos' = pos + 1
    /\ outcome' = "returned"
    /\ badlabels' = {}
    /\ UNCHANGED <<document, dicts, citestyle, bibstyle, orderby, citationnodes, bibnodes,
                   renderednodes, pc, document0, document1>>

CallAddReference ==
    /\ pc = "API"
    /\ pos < MaxCalls
    /\ \E label \in Labels, reference \in Contents :
        /\ call' = [op |-> "AddReference", label |-> label, reference |-> reference]
        /\ bibliography' = AddReference(bibliography, label, reference)
        /\ outcome' = IF AddReferenceRaises(bibliography, label)
                      THEN "DuplicateReferenceError" ELSE "returned"
        /\ badlabels' = IF AddReferenceRaises(bibliography, label) THEN {label} ELSE {}
    /\ prev' = bibliography
    /\ returned' = <<>>
    /\ pos' = pos + 1
    /\ UNCHANGED <<document, dicts, citestyle, bibstyle, orderby, citationnodes, bibnodes,
                   renderednodes, pc, document0, document1>>

\* the indices GetReferenceByIndex is called with: below 1, every number a
\* label can have, and one above them
Indices == 0..(NumLabels + 1)

\* b.GetReferenceByIndex(index): AssertionError above Count(), else whatever
\* the loop returns or falls through to; the lookup of the reference goes
\* through the defaultdict
CallGetReferenceByIndex ==
    /\ pc = "API"
    /\ pos < MaxCalls
    /\ \E index \in Indices :
        /\ call' = [op |-> "GetReferenceByIndex", label |-> <<>>, reference |-> index]
        /\ IF GetReferenceByIndexAsserts(bibliography, index)
           THEN /\ outcome' = "AssertionError"
                /\ returned' = <<>>
                /\ bibliography' = bibliography
           ELSE /\ outcome' = "returned"
                /\ returned' = GetReferenceByIndex(bibliography, index)
                /\ bibliography' = AfterGetReferenceByIndex(bibliography, index)
    /\ prev' = bibliography
    /\ pos' = pos + 1
    /\ badlabels' = {}
    /\ UNCHANGED <<document, dicts, citestyle, bibstyle, orderby, citationnodes, bibnodes,
                   renderednodes, pc, document0, document1>>

\* b.GetReferenceByLabel(label): KeyError for a label without a number, else
\* the triple; the lookup of the reference goes through the defaultdict
CallGetReferenceByLabel ==
    /\ pc = "API"
    /\ pos < MaxCalls
    /\ \E label \in Labels :
        /\ call' = [op |-> "GetReferenceByLabel", label |-> label, reference |-> 0]
        /\ IF GetReferenceByLabelRaises(bibliography, label)
           THEN /\ outcome' = "KeyError"
                /\ returned' = <<>>
                /\ bibliography' = bibliography
           ELSE /\ outcome' = "returned"
                /\ returned' = GetReferenceByLabel(bibliography, label)
                /\ bibliography' = AfterGetReferenceByLabel(bibliography, label)
    /\ prev' = bibliography
    /\ pos' = pos + 1
    /\ badlabels' = {}
    /\ UNCHANGED <<document, dicts, citestyle, bibstyle, orderby, citationnodes, bibnodes,
                   renderednodes, pc, document0, document1>>

NextBib ==
    CallAddCitation \/ CallAddReference \/ CallGetReferenceByIndex
        \/ CallGetReferenceByLabel

SpecBib == InitBib /\ [][NextBib]_vars

\* ================================================================== claims
\* what the claims are stated with
Supported ==
    /\ citestyle \in supportedcitestyles
    /\ bibstyle \in supportedbibstyles
    /\ orderby \in supportedorderings

\* the citation labels of a document in the order a reader meets them
RECURSIVE DocCitations(_, _)
DocCitations(doc, i) ==
    IF i > Len(doc) THEN <<>>
    ELSE citationformat(alltext(doc[i])) \o DocCitations(doc, i + 1)

\* the bib-item labels of a document, one (the first) per paragraph
RECURSIVE DocBibitems(_, _)
DocBibitems(doc, i) ==
    IF i > Len(doc) THEN <<>>
    ELSE bibformat(alltext(doc[i])) \o DocBibitems(doc, i + 1)

FirstIndex(seq, x) == CHOOSE i \in 1..Len(seq) : seq[i] = x /\ \A j \in 1..(i - 1) : seq[j] # x

\* the scan loop has visited every paragraph without raising
ScanComplete ==
    \/ pc \in {"Validating", "RewritingCitations", "RenderingReferences",
               "SplicingReferences", "Done"}
    \/ pc = "Failed" /\ outcome \notin {"AssertionError", "DuplicateReferenceError"}

\* C1 (as claimed): a run of ProcessCitations that ends in a failure has left
\* the content of every paragraph exactly as it was before the call.
C1_AllOrNothing ==
    (Supported /\ pc = "Failed") => View(document, dicts) = document0

\* C2 (as claimed): with supported arguments, the only outcomes of
\* ProcessCitations are success, MissingReferenceError and
\* DuplicateReferenceError.
C2_ThreeOutcomes ==
    Supported =>
        outcome \in {"running", "success", "MissingReferenceError",
                     "DuplicateReferenceError"}

\* C4: after a complete scan, a label first met before another one (first
\* citation under citation-first, bib-item under reference-first) has the
\* smaller index, whatever the order of the other kind of marker and however
\* often each is cited.
C4_OrderingLaw ==
    ScanComplete =>
        LET met == IF orderby = "citation-first" THEN DocCitations(document0, 1)
                   ELSE DocBibitems(document0, 1)
        IN  \A A \in Range(met), B \in Range(met) :
                FirstIndex(met, A) < FirstIndex(met, B) =>
                    /\ ~IndexRaises(bibliography, A)
                    /\ ~IndexRaises(bibliography, B)
                    /\ Index(bibliography, A) < Index(bibliography, B)

\* C4: the scan is complete under citation-first; A is cited first and more
\* than once, B after it, and B's bib-item comes before A's.
C4_Witness ==
    /\ ScanComplete
    /\ orderby = "citation-first"
    /\ \E A \in Labels, B \in Labels :
        LET cites == DocCitations(document0, 1)
            bibs == DocBibitems(document0, 1)
        IN  /\ A \in Range(cites) /\ B \in Range(cites)
            /\ A \in Range(bibs) /\ B \in Range(bibs)
            /\ FirstIndex(cites, A) < FirstIndex(cites, B)
            /\ FirstIndex(bibs, B) < FirstIndex(bibs, A)
            /\ Cardinality({i \in 1..Len(cites) : cites[i] = A}) > 1
            /\ Index(bibliography, A) < Index(bibliography, B)

\* C3 (as claimed): IsConsistent() is true exactly when the set of cited
\* labels equals the set of referenced labels.
C3_ConsistentIffEqual ==
    IsConsistent(bibliography) <=>
        (Range(bibliography.citations) = DOMAIN bibliography.references)

\* C3 (amended): IsConsistent() is true exactly when every cited label has a
\* reference (a referenced label that is never cited does not make it false),
\* and citing an already cited label again does not change the result.
C3_ConsistentIffCovered ==
    /\ IsConsistent(bibliography) <=>
          \A i \in 1..Len(bibliography.citations) :
              bibliography.citations[i] \in DOMAIN bibliography.references
    /\ (call.op = "AddCitation" /\ call.label \in Range(prev.citations)) =>
          (IsConsistent(bibliography) <=> IsConsistent(prev))

\* C3: consistent although a referenced label was never cited, after a
\* label was cited twice.
C3_Witness ==
    /\ IsConsistent(bibliography)
    /\ DOMAIN bibliography.references \ Range(bibliography.citations) # {}
    /\ \E i \in 1..Len(bibliography.citations), j \in 1..Len(bibliography.citations) :
          i < j /\ bibliography.citations[i] = bibliography.citations[j]

\* C7: AddReference with a label that already has a reference raises
\* DuplicateReferenceError carrying that label and leaves references, order
\* and citations as they were, whatever the new content.
C7_DuplicateLaw ==
    (call.op = "AddReference" /\ call.label \in DOMAIN prev.references) =>
        /\ outcome = "DuplicateReferenceError"
        /\ badlabels = {call.label}
        /\ bibliography = prev

\* C7: a second AddReference of a label, with another content, has raised.
C7_Witness ==
    /\ call.op = "AddReference"
    /\ call.label \in DOMAIN prev.references
    /\ prev.references[call.label] # call.reference
    /\ outcome = "DuplicateReferenceError"
    /\ bibliography.references[call.label] = prev.references[call.label]

\* C9: the values of order are exactly 1..|order|, none twice, and a call
\* never changes the number a label already has.
C9_OrderDense ==
    LET order == bibliography.order
    IN  /\ {order[l] : l \in DOMAIN order} = 1..Cardinality(DOMAIN order)
        /\ \A l \in DOMAIN order, m \in DOMAIN order : order[l] = order[m] => l = m
        /\ \A l \in DOMAIN prev.order : l \in DOMAIN order /\ order[l] = prev.order[l]

\* C9: two labels are numbered, and the last call, on a label that had its
\* number already, raised DuplicateReferenceError.
C9_Witness ==
    /\ Cardinality(DOMAIN bibliography.order) >= 2
    /\ call.label \in DOMAIN prev.order
    /\ outcome = "DuplicateReferenceError"

\* C10 (as claimed): whenever IsConsistent() is true, |order| = |references|,
\* Count() is the number of distinct labels and the values of order are a
\* permutation of 1..Count().
C10_ConsistentCounts ==
    IsConsistent(bibliography) =>
        LET order == bibliography.order
        IN  /\ Cardinality(DOMAIN order) = Cardinality(DOMAIN bibliography.references)
            /\ Count(bibliography) =
                  Cardinality(Range(bibliography.citations)
                              \cup DOMAIN bibliography.references)
            /\ {order[l] : l \in DOMAIN order} = 1..Count(bibliography)

StartsWith(text, head) ==
    Len(text) >= Len(head) /\ SubSeq(text, 1, Len(head)) = head

\* C5: after a successful run, for every i in 1..Count() the i-th reference
\* paragraph is the node rendered for the label numbered i: it has the tag
\* of that label's reference paragraph, and its text, tail and children with
\* the label's bib-item marker replaced by the prefix numbered i.
C5_ReferencesByNumber ==
    pc = "Done" =>
        \A i \in 1..Count(bibliography) :
            /\ i <= Len(bibnodes)
            /\ \E L \in DOMAIN bibliography.order :
                /\ Index(bibliography, L) = i
                /\ LET source == document1[bibliography.references[L]]
                       node == document[bibnodes[i]]
                   IN  /\ node = renderednodes[i]
                       /\ node.tag = source.tag
                       /\ node.text = replacebib(bibstyle, i, L, source.text)
                       /\ node.tail = replacebib(bibstyle, i, L, source.tail)
                       /\ node.children = TransformChildren(bibstyle, i, L, source.children)
                       /\ StartsWith(source.text, Bibitem(L)) =>
                             StartsWith(node.text, ReferencePrefix(bibstyle, i))

\* C5: a run succeeded in which the entry numbered 1 was written on a
\* paragraph other than the one its label was defined in.
C5_Witness ==
    /\ pc = "Done"
    /\ Count(bibliography) >= 2
    /\ \E L \in DOMAIN bibliography.order :
        /\ Index(bibliography, L) = 1
        /\ bibliography.references[L] # bibnodes[1]
        /\ document[bibnodes[1]].text =
              ReferencePrefix(bibstyle, 1) \o <<" ", "T">>

\* the text and tail segments inside an element, in document order
RECURSIVE Segments(_)
RECURSIVE SegmentsOfChildren(_, _)
SegmentsOfChildren(children, i) ==
    IF i > Len(children) THEN <<>>
    ELSE Segments(children[i]) \o <<children[i].tail>> \o SegmentsOfChildren(children, i + 1)
Segments(node) == <<node.text>> \o SegmentsOfChildren(node.children, 1)

\* what a reader sees of a citation of index k
VisibleCitation(style, k) ==
    IF style = "square-brace" THEN <<"[">> \o Decimal(k) \o <<"]">>
    ELSE IF style = "parens" THEN <<"(">> \o Decimal(k) \o <<")">>
    ELSE Decimal(k)

\* a segment with the markers of the labels from number i on replaced
RECURSIVE ExpectedSegment(_, _, _, _)
ExpectedSegment(style, order, seg, i) ==
    IF i > Len(LabelNames) THEN seg
    ELSE LET l == <<LabelNames[i]>>
         IN  ExpectedSegment(style, order,
                IF l \in DOMAIN order
                THEN resub(CITE, l, VisibleCitation(style, order[l]), seg) ELSE seg,
                i + 1)

RECURSIVE Flatten(_, _)
Flatten(seqs, i) == IF i > Len(seqs) THEN <<>> ELSE seqs[i] \o Flatten(seqs, i + 1)

\* the texts of the superscript spans of an element, in document order
RECURSIVE SuperscriptTexts(_)
RECURSIVE SuperscriptTextsOfChildren(_, _)
SuperscriptTextsOfChildren(children, i) ==
    IF i > Len(children) THEN <<>>
    ELSE SuperscriptTexts(children[i]) \o SuperscriptTextsOfChildren(children, i + 1)
SuperscriptTexts(node) ==
    (IF node.attrib = {<<"sf:style", SuperscriptStyle>>} THEN <<node.text>> ELSE <<>>)
        \o SuperscriptTextsOfChildren(node.children, 1)

\* C6: after a successful run, in every citation paragraph each citation
\* marker lying in a text or tail segment has been replaced by the rendering
\* of its label's index: none is left, the visible text is the old one with
\* the markers replaced, a plain style keeps the segments apart, superscript
\* adds one styled span per marker, and two labels never share an index.
C6_CitationsRendered ==
    pc = "Done" =>
        /\ \A k \in 1..Len(citationnodes) :
            LET before == Segments(document0[citationnodes[k]])
                after == document1[citationnodes[k]]
                expected == [j \in 1..Len(before) |->
                                ExpectedSegment(citestyle, bibliography.order, before[j], 1)]
                labels == Flatten([j \in 1..Len(before) |-> citationformat(before[j])], 1)
            IN  /\ \A j \in 1..Len(Segments(after)) :
                        citationformat(Segments(after)[j]) = <<>>
                /\ alltext(after) = Flatten(expected, 1)
                /\ citestyle # "superscript" => Segments(after) = expected
                /\ citestyle = "superscript" =>
                        SuperscriptTexts(after) =
                            [j \in 1..Len(labels) |-> Decimal(Index(bibliography, labels[j]))]
        /\ \A l \in DOMAIN bibliography.order, m \in DOMAIN bibliography.order :
                Index(bibliography, l) = Index(bibliography, m) => l = m

\* C6: a run succeeded on a paragraph holding the markers of two labels, one
\* in its text and one in the tail of a child, and the paragraph now shows
\* two different indices.
C6_Witness ==
    /\ pc = "Done"
    /\ \E k \in 1..Len(citationnodes) :
        LET before == document0[citationnodes[k]]
            after == document1[citationnodes[k]]
        IN  /\ Len(citationformat(before.text)) = 1
            /\ Len(before.children) = 1
            /\ Len(citationformat(before.children[1].tail)) = 1
            /\ citationformat(before.text) # citationformat(before.children[1].tail)
            /\ citationformat(alltext(after)) = <<>>
            /\ alltext(after) # alltext(before)

\* C8: once the scan is complete and validation has run, if some cited label
\* has no bib-item the run has failed with MissingReferenceError, badcites is
\* exactly the set of those labels and no paragraph has changed; if every
\* cited label has a bib-item, MissingReferenceError is not raised.
C8_MissingReference ==
    (ScanComplete /\ pc # "Validating") =>
        LET missing == Range(DocCitations(document0, 1)) \ Range(DocBibitems(document0, 1))
        IN  /\ missing # {} =>
                /\ pc = "Failed"
                /\ outcome = "MissingReferenceError"
                /\ badlabels = missing
                /\ View(document, dicts) = document0
            /\ missing = {} => outcome # "MissingReferenceError"

\* C8: MissingReferenceError was raised on a document that also defines a
\* label nobody cites.
C8_Witness ==
    /\ outcome = "MissingReferenceError"
    /\ badlabels # {}
    /\ Range(DocBibitems(document0, 1)) \ Range(DocCitations(document0, 1)) # {}
    /\ badlabels \cap Range(DocBibitems(document0, 1)) = {}

\* C11 (as claimed): GetReferenceByIndex(index) returns the triple (label,
\* index, content) of the label numbered index when there is one, and fails
\* with an error, never returning without a triple, for every index that no
\* label has (below 1, above Count(), or a number of 1..Count() missing
\* from order).
C11_TripleOrError ==
    call.op = "GetReferenceByIndex" =>
        LET index == call.reference
            hits == {l \in DOMAIN prev.order : prev.order[l] = index}
        IN  IF hits # {}
            THEN /\ outcome = "returned"
                 /\ Len(returned) = 1
                 /\ returned[1].label \in hits
                 /\ returned[1].index = index
                 /\ returned[1].reference =
                        ReferencesAfterLookup(prev, returned[1].label)[returned[1].label]
            ELSE outcome # "returned"

\* no paragraph's full text holds a citation marker or a bib-item marker
NoMarkers ==
    \A i \in 1..Len(document0) :
        /\ citationformat(alltext(document0[i])) = <<>>
        /\ bibformat(alltext(document0[i])) = <<>>

\* C12: on a document in which no paragraph's full text holds a citation or
\* bib-item marker, ProcessCitations never fails, ends in success, and every
\* paragraph keeps its tag, attributes, text, tail and children throughout.
C12_NoMarkersNoOp ==
    (Supported /\ NoMarkers) =>
        /\ pc \in {"Start", "Scanning", "Validating", "Done"}
        /\ pc = "Done" => outcome = "success"
        /\ View(document, dicts) = document0
        /\ citationnodes = <<>> /\ bibnodes = <<>> /\ renderednodes = <<>>

\* C12: a run succeeded on a document of several marker-free paragraphs, one
\* of them with a child element and a marker in its own tail.
C12_Witness ==
    /\ Supported /\ NoMarkers
    /\ pc = "Done" /\ outcome = "success"
    /\ Len(document0) >= 2
    /\ \E i \in 1..Len(document0) :
        /\ citationformat(document0[i].tail) # <<>>
        /\ Len(document0[i].children) >= 1
    /\ View(document, dicts) = document0

\* C13: a call with an unsupported citation style, reference style or order
\* policy fails its assertion before the scan: nothing is entered in a
\* Bibliography, no paragraph is collected as a citation or reference node,
\* the scan has not moved and no paragraph has changed.
C13_RejectedBeforeScan ==
    (~Supported /\ pc # "Start") =>
        /\ pc = "Failed"
        /\ outcome = "AssertionError"
        /\ bibliography.order = EmptyMap
        /\ bibliography.citations = <<>>
        /\ bibliography.references = EmptyMap
        /\ citationnodes = <<>> /\ bibnodes = <<>> /\ renderednodes = <<>>
        /\ pos = 1
        /\ View(document, dicts) = document0

\* C13: a call with an unsupported argument was rejected on a document that
\* holds both kinds of marker.
C13_Witness ==
    /\ ~Supported
    /\ pc = "Failed" /\ outcome = "AssertionError"
    /\ DocCitations(document0, 1) # <<>>
    /\ DocBibitems(document0, 1) # <<>>
    /\ View(document, dicts) = document0

\* the phases in which ProcessCitations writes to the document
RewritePhases == {"RewritingCitations", "RenderingReferences", "SplicingReferences"}

\* C14: in every step of every run: a paragraph changes only in a rewrite
\* phase; the scan visits the paragraphs one by one from the first to the
\* last and only then hands over to validation; a rewrite phase is entered
\* from validation only when the bibliography is consistent; the reference
\* pass (rendering, splicing) starts only when every citation node has been
\* rewritten and is never followed by a citation rewrite; and
\* DuplicateReferenceError is raised by a scan step, on an unchanged document.
C14_PhaseOrdering ==
    [][/\ View(document', dicts') # View(document, dicts) => pc \in RewritePhases
       /\ pc \in {"Start", "Scanning", "Validating"} =>
            /\ View(document, dicts) = document0
            /\ renderednodes = <<>>
       /\ pc = "Start" => pos = 1 /\ pc' \in {"Scanning", "Validating", "Failed"}
       /\ (pc = "Start" /\ pc' = "Validating") => Len(document) = 0
       /\ pc = "Scanning" =>
            \/ pc' = "Scanning" /\ pos' = pos + 1 /\ pos < Len(document)
            \/ pc' = "Validating" /\ pos = Len(document)
            \/ pc' = "Failed" /\ outcome' = "DuplicateReferenceError"
       /\ (pc = "Validating" /\ pc' # "Failed") => IsConsistent(bibliography)
       /\ pc' \in RewritePhases => pc \in RewritePhases \cup {"Validating"}
       /\ pc = "RewritingCitations" => renderednodes = <<>> /\ renderednodes' = <<>>
       /\ (pc' = "RenderingReferences" /\ pc # "RenderingReferences") =>
            \/ pc = "Validating" /\ citationnodes = <<>>
            \/ pc = "RewritingCitations" /\ pos = Len(citationnodes)
       /\ pc \in {"RenderingReferences", "SplicingReferences"} =>
            pc' \in {"RenderingReferences", "SplicingReferences", "Done", "Failed"}
       /\ pc' = "SplicingReferences" => pc \in {"RenderingReferences", "SplicingReferences"}
       /\ outcome' = "DuplicateReferenceError" =>
            /\ pc = "Scanning"
            /\ View(document', dicts') = document0
      ]_vars

\* C14: a run went through every phase: it succeeded after rewriting a
\* citation node and rendering and splicing two references, one of them on
\* a paragraph that is a citation node too.
C14_Witness ==
    /\ pc = "Done" /\ outcome = "success"
    /\ Len(citationnodes) >= 1
    /\ Len(renderednodes) >= 2
    /\ Range(citationnodes) \cap Range(bibnodes) # {}
    /\ View(document, dicts) # document0

\* C15: from the moment validation has passed until ProcessCitations returns
\* or fails, no step of the rewrite passes (with its Index,
\* GetReferenceByIndex and Count calls) changes the order mapping, the
\* citations sequence or the key set of references: no lookup inserts a
\* default entry.
C15_ReadOnlyBibliography ==
    [][(pc \in RewritePhases) =>
            LET before == bibliography
                after == bibliography'
            IN  /\ after.order = before.order
                /\ after.citations = before.citations
                /\ DOMAIN after.references = DOMAIN before.references
                /\ after.references = before.references]_vars

\* C15: the citation pass has looked up indices and the rendering loop has
\* fetched every entry of a bibliography of two labels by its number.
C15_Witness ==
    /\ pc = "SplicingReferences"
    /\ Len(citationnodes) >= 1
    /\ Count(bibliography) >= 2
    /\ Len(renderednodes) = Count(bibliography)
    /\ DOMAIN bibliography.references = DOMAIN bibliography.order

\* C16 (as claimed): after every copyelement(fromnode, tonode) of the two
\* passes, tonode has the tag, attributes, text, tail and children fromnode
\* had when the call began: the citation paragraph those of the re-parsed
\* node, the reference paragraph those of the rendered node.
C16_SpliceCopiesSource ==
    [][/\ (pc = "RewritingCitations" /\ pc' # "Failed") =>
            View(document', dicts')[citationnodes[pos]] =
                XML(replacecitation(citestyle, bibliography,
                                    tostring(document[citationnodes[pos]], dicts)))
       /\ (pc = "SplicingReferences") =>
            View(document', dicts')[bibnodes[pos]] =
                [renderednodes[pos] EXCEPT !.attrib = dicts[renderednodes[pos].attrib]]
      ]_vars

\* the paragraphs of a document whose full text holds a bib-item marker
ReferenceBearing(doc) == {i \in 1..Len(doc) : bibformat(alltext(doc[i])) # <<>>}

\* C17: one bib-item per paragraph is honoured: once the scan has ended
\* without an error the reference-bearing paragraphs, each listed once, are
\* as many as the entries of references; and after a successful run Count()
\* entries were rendered, as many as there are reference-bearing paragraphs,
\* the i-th of them spliced onto the i-th such paragraph, so that no
\* paragraph and no entry is dropped by the pairing.
C17_OneEntryPerNode ==
    /\ ScanComplete =>
            /\ Range(bibnodes) = ReferenceBearing(document0)
            /\ \A i \in 1..Len(bibnodes), j \in 1..Len(bibnodes) :
                    bibnodes[i] = bibnodes[j] => i = j
            /\ Len(bibnodes) = Cardinality(DOMAIN bibliography.references)
    /\ pc = "Done" =>
            /\ Len(renderednodes) = Count(bibliography)
            /\ Len(renderednodes) = Len(bibnodes)
            /\ \A i \in 1..Len(bibnodes) : document[bibnodes[i]] = renderednodes[i]

\* C17: a run succeeded on a document with two reference-bearing
\* paragraphs, one of which holds two bib-item markers.
C17_Witness ==
    /\ pc = "Done" /\ outcome = "success"
    /\ Len(bibnodes) = 2
    /\ \E i \in 1..Len(document0) :
            Len(FindAllFrom(BIBITEM, alltext(document0[i]), 1)) = 2
    /\ Cardinality(DOMAIN bibliography.references) = 2
    /\ document[bibnodes[2]] = renderednodes[2]

\* C18 (as claimed): after a successful run, the full visible text of no
\* paragraph holds a citation marker any more, also when the characters of
\* a marker were spread over several text and tail segments.
C18_NoMarkerLeft ==
    (pc = "Done" /\ outcome = "success") =>
        \A i \in 1..Len(document) : citationformat(alltext(document[i])) = <<>>

====
